---- MODULE Spec2Model ----
(***************************************************************************)
(* Key lifecycle and request authorization of the Alice AI proxy           *)
(* (api/index.py): the Mongo collection AI_APIKEY, the public /ai handler  *)
(* and the Telegram admin commands that mint, rotate and delete keys.      *)
(*                                                                         *)
(* Every action is one access of a handler to the world outside it (one    *)
(* pymongo call, one read of the clock, one upstream HTTP call, one        *)
(* message sent to Telegram) together with the local computation around    *)
(* it, so that handlers running in different workers interleave exactly    *)
(* between these accesses.  The response of ai_api is its return value.    *)
(*                                                                         *)
(* A handler that has returned keeps no locals (pc = "done"); what it      *)
(* answered is recorded in last.  last, ok200 and the fields finds,        *)
(* writes, calls, upok, from, revoked, pre and interleaved observe the run *)
(* and are read by no guard.  Time is counted in days.                     *)
(***************************************************************************)
EXTENDS Integers, FiniteSets, Sequences, TLC

\* ------------------------------------------------------------------ bounds
NumRequests == 2        \* /ai requests in one run
NumCommands == 2        \* Telegram updates in one run
MaxTime     == 1        \* the clock runs over 0..MaxTime (unit: one day)
MaxAttempts == 2        \* colliding inserts of one create_key call before the
                        \* interpreter's recursion limit (1000 frames) ends it

\* --------------------------------------------------------- program constants
ADMIN_ID    == 0        \* int(os.getenv("ADMIN_ID", "0"))
ReworkDays  == 30       \* create_key(name, 30) in rework_cmd

\* ------------------------------------------------------------ input domains
Reqs   == 1..NumRequests
Admins == 1..NumCommands
Tokens == {"k1", "k2"}                  \* values gen_key() can return
Names  == {"alice", "k1"}               \* p[1]: any word, a token among them
Users  == {ADMIN_ID, ADMIN_ID + 7}      \* m.from_user.id
NoneVal == "<None>"                     \* request.args.get(...) of an absent parameter
DayWords == {"-1", "0"}                 \* p[2] of /genkey: expired at once, expiring now
UpstreamOutcomes == {"ok", "timeout", "http_error", "bad_shape"}

\* the query strings the model sends: apikey and prompt both given, and each of
\* them absent and empty
Queries ==
    {<<k, "Hello">> : k \in Tokens}
        \cup {<<NoneVal, "Hello">>, <<"k1", "">>, <<"", NoneVal>>}

\* int(p[2]) on the words the model sends
IntOf(w) == CASE w = "-1" -> -1
              [] w = "0"  -> 0

\* m.text.split() of the updates the model sends
Texts ==
    {<<"/genkey", n, d>> : n \in Names, d \in DayWords}
        \cup {<<"/genkey", n>> : n \in Names}
        \cup {<<"/rework", n>> : n \in Names}
        \cup {<<"/delkey", t>> : t \in Names \cup Tokens}
        \cup {<<"/usage", t>> : t \in Names \cup Tokens}
        \cup {<<"/rework">>, <<"/delkey">>, <<"/list">>, <<"/test", "main">>}

Messages == [from : Users, text : Texts]

VARIABLES
    store,      \* keys_col: the set of documents of the collection
    nextId,     \* the _id the next inserted document gets (insertion order)
    now,        \* datetime.datetime.utcnow()
    req,        \* per /ai request: position in ai_api and its live locals
    adm,        \* per Telegram update: position in the handler and its live locals
    last,       \* what the handler that returned most recently answered: an HTTP
                \* response of ai_api or the outcome of a Telegram handler
    ok200       \* per key: 200 responses since a record with that key was inserted

vars == <<store, nextId, now, req, adm, last, ok200>>

\* ------------------------------------------------------------- collection
\* the first document of a result set in natural (insertion) order
First(S) == IF S = {} THEN {}
            ELSE {CHOOSE d \in S : \A e \in S : d._id <= e._id}

\* (variant) the lookup without the active filter: find_one({"key": key})
FindByKeyOnly(coll, key) == First({d \in coll : d.key = key})

\* keys_col.find_one({"key": key, "active": True})
FindActiveByKey(coll, key) == First({d \in coll : d.key = key /\ d.active})

\* keys_col.find_one({"key": t}), the left operand of usage_cmd's or
FindOneByKey(coll, t) == First({d \in coll : d.key = t})

\* keys_col.find_one({"name": t}), the right operand
FindOneByName(coll, t) == First({d \in coll : d.name = t})

\* list(keys_col.find({}))
FindAll(coll) == coll

\* (variant) a collection without the unique index never raises
NoUniqueIndex(coll, doc) == FALSE

\* the unique index on "key": insert_one raises DuplicateKeyError
DuplicateKey(coll, doc) == \E d \in coll : d.key = doc.key

\* keys_col.insert_one(doc), when it does not raise
InsertOne(coll, doc) == coll \cup {doc}

\* (variant) the expired branch answers 401 without writing the flag
NoDeactivation(coll, key) == coll

\* keys_col.update_one({"key": key}, {"$set": {"active": False}})
DeactivateByKey(coll, key) ==
    LET hit == First({d \in coll : d.key = key})
    IN  (coll \ hit) \cup {[d EXCEPT !.active = FALSE] : d \in hit}

\* (variant) the increment as an upsert: update_one(..., upsert=True) inserts a
\* document for a key that has none (the fields it would lack are given the
\* values a reader would take for missing ones)
IncUsageUpsert(coll, key) ==
    LET hit == First({d \in coll : d.key = key})
    IN  IF hit = {}
        THEN coll \cup {[_id |-> 0, key |-> key, name |-> "", created_at |-> 0,
                         expires_at |-> 0, active |-> FALSE, usage |-> 1]}
        ELSE (coll \ hit) \cup {[d EXCEPT !.usage = d.usage + 1] : d \in hit}

\* (variant) the increment filtered on the flag:
\* update_one({"key": key, "active": True}, {"$inc": {"usage": 1}})
IncUsageIfActive(coll, key) ==
    LET hit == First({d \in coll : d.key = key /\ d.active})
    IN  (coll \ hit) \cup {[d EXCEPT !.usage = d.usage + 1] : d \in hit}

\* (variant) the counter written from the handler instead of $inc: {"$set": {"usage": 1}}
SetUsageOne(coll, key) ==
    LET hit == First({d \in coll : d.key = key})
    IN  (coll \ hit) \cup {[d EXCEPT !.usage = 1] : d \in hit}

\* keys_col.update_one({"key": key}, {"$inc": {"usage": 1}})
IncUsage(coll, key) ==
    LET hit == First({d \in coll : d.key = key})
    IN  (coll \ hit) \cup {[d EXCEPT !.usage = d.usage + 1] : d \in hit}

\* (variant) the revoke also marks the name:
\* {"$set": {"active": False, "name": "revoked"}}
RevokeRenames(coll, name) ==
    {IF d.name = name THEN [d EXCEPT !.active = FALSE, !.name = "revoked"] ELSE d : d \in coll}

\* (variant) the filter on the wrong field: update_many({"key": name}, ...)
RevokeByKeyField(coll, name) ==
    {IF d.key = name THEN [d EXCEPT !.active = FALSE] ELSE d : d \in coll}

\* (variant) the flag toggled instead of cleared
RevokeToggles(coll, name) ==
    {IF d.name = name THEN [d EXCEPT !.active = ~d.active] ELSE d : d \in coll}

\* (variant) the revoke also clears the counter: {"$set": {"active": False, "usage": 0}}
RevokeResetsUsage(coll, name) ==
    {IF d.name = name THEN [d EXCEPT !.active = FALSE, !.usage = 0] ELSE d : d \in coll}

\* keys_col.update_many({"name": name}, {"$set": {"active": False}})
RevokeByName(coll, name) ==
    {IF d.name = name THEN [d EXCEPT !.active = FALSE] ELSE d : d \in coll}

\* (variant) the other counter of the UpdateResult: .matched_count
MatchedCount(coll, name) == Cardinality({d \in coll : d.name = name})

\* .modified_count of that update_many, the value revoke_by_name returns: the
\* server counts the documents the $set changed, and a document whose active
\* is already False is matched but not modified
ModifiedCount(coll, name) == Cardinality({d \in coll : d.name = name /\ d.active})

\* (variant) the filter without the $or: delete_many({"key": t})
DeleteByKeyOnly(coll, t) == {d \in coll : d.key # t}

\* keys_col.delete_many({"$or": [{"key": t}, {"name": t}]})
DeleteByKeyOrName(coll, t) == {d \in coll : ~(d.key = t \/ d.name = t)}

\* (variant) the lifetime taken without its sign: timedelta(days=abs(days))
NewDocAbsDays(id, token, name, days, t) ==
    [_id |-> id, key |-> token, name |-> name, created_at |-> t,
     expires_at |-> t + (IF days < 0 THEN 0 - days ELSE days), active |-> TRUE, usage |-> 0]

\* the document create_key builds (insert_one adds the _id)
NewDoc(id, token, name, days, t) ==
    [_id |-> id, key |-> token, name |-> name, created_at |-> t,
     expires_at |-> t + days, active |-> TRUE, usage |-> 0]

\* ------------------------------------------------------------------ ai_api
\* Python truthiness of a query parameter: None and "" are falsy
Truthy(s) == s # NoneVal /\ s # ""

\* (variant) only the prompt is tested: if not prompt
MissingPromptOnly(key, prompt) == ~Truthy(prompt)

\* if not key or not prompt
MissingParams(key, prompt) == ~Truthy(key) \/ ~Truthy(prompt)

\* (variant) the comparison made inclusive: expires_at <= utcnow()
ExpiredInclusive(doc, t) == doc.expires_at <= t

\* if doc["expires_at"] < datetime.datetime.utcnow()
Expired(doc, t) == doc.expires_at < t

\* (variant) call_ai without raise_for_status and with a default reply: only the
\* timeout raises
RaisesOnTimeoutOnly(out) == out = "timeout"

\* (variant) the reply read with defaults, data.get("choices", ...): a body
\* without the expected fields no longer raises
RaisesOnTransportOnly(out) == out \in {"timeout", "http_error"}

\* r.raise_for_status(), the timeout of session.post and the indexing of data
\* raise on every outcome but a well-formed success
UpstreamRaises(out) == out # "ok"

\* (variant) an unset ADMIN_ID, which reads as 0, taken to mean "no restriction"
AdminUnsetAllowsAll(uid) == ADMIN_ID = 0 \/ uid = ADMIN_ID

is_admin(uid) == uid = ADMIN_ID

\* a handler that has not started; a handler that has returned has the same
\* locals and pc = "done"
IdleReq == [pc |-> "idle", key |-> NoneVal, prompt |-> NoneVal, doc |-> {},
            finds |-> 0, writes |-> 0, calls |-> 0, upok |-> FALSE]
DoneReq == [IdleReq EXCEPT !.pc = "done"]

IdleAdm == [pc |-> "idle", from |-> -1, cmd |-> "", name |-> "", days |-> 0,
            t |-> 0, attempts |-> 0, revoked |-> 0, pre |-> {},
            interleaved |-> FALSE, sent |-> "", newkey |-> "", calls |-> 0]
DoneAdm == [IdleAdm EXCEPT !.pc = "done"]

\* the response of ai_api to the request with locals q
Response(q, status, body) ==
    [kind |-> "http", status |-> status, body |-> body, key |-> q.key, prompt |-> q.prompt,
     finds |-> q.finds, writes |-> q.writes, calls |-> q.calls]

\* what the Telegram handler with locals q leaves behind when it ends: the
\* message it sent, or the exception that ended it
Outcome(q, raised) ==
    [kind |-> "bot", from |-> q.from, cmd |-> q.cmd, name |-> q.name, sent |-> q.sent,
     newkey |-> q.newkey, calls |-> q.calls, attempts |-> q.attempts, raised |-> raised]

Init ==
    /\ store = {}
    /\ nextId = 1
    /\ now = 0
    /\ req = [r \in Reqs |-> IdleReq]
    /\ adm = [a \in Admins |-> IdleAdm]
    /\ last = [kind |-> "none"]
    /\ ok200 = [k \in Tokens |-> 0]

\* the clock advances
Tick ==
    /\ now < MaxTime
    /\ now' = now + 1
    /\ last' = last
    /\ UNCHANGED <<store, nextId, req, adm, ok200>>

\* lines 100-108: the parameters, then the lookup of the active record
AiLookup(r) ==
    /\ req[r].pc = "idle"
    /\ IF r = 1 THEN TRUE ELSE req[r - 1].pc # "idle"
    /\ \E query \in Queries :
         LET key == query[1]
             prompt == query[2]
             q   == [req[r] EXCEPT !.key = key, !.prompt = prompt]
             doc == FindActiveByKey(store, key)
         IN  IF MissingParams(key, prompt)
             THEN /\ req' = [req EXCEPT ![r] = DoneReq]
                  /\ last' = Response(q, 400, "Missing parameters")
             ELSE IF doc = {}
             THEN /\ req' = [req EXCEPT ![r] = DoneReq]
                  /\ last' = Response([q EXCEPT !.finds = @ + 1], 401, "Invalid API key")
             ELSE /\ req' = [req EXCEPT ![r] =
                                [q EXCEPT !.pc = "check", !.finds = @ + 1, !.doc = doc]]
                  /\ last' = last
    /\ UNCHANGED <<store, nextId, now, adm, ok200>>

\* line 110: the expiry test against the clock
AiCheckExpiry(r) ==
    /\ req[r].pc = "check"
    /\ \E d \in req[r].doc :
         req' = [req EXCEPT ![r] =
                    [@ EXCEPT !.pc = IF Expired(d, now) THEN "deactivate" ELSE "call",
                              !.doc = {}]]
    /\ last' = last
    /\ UNCHANGED <<store, nextId, now, adm, ok200>>

\* lines 111-112: lazy deactivation, then 401
AiDeactivate(r) ==
    /\ req[r].pc = "deactivate"
    /\ store' = DeactivateByKey(store, req[r].key)
    /\ req' = [req EXCEPT ![r] = DoneReq]
    /\ last' = Response([req[r] EXCEPT !.writes = @ + 1], 401, "API key expired")
    /\ UNCHANGED <<nextId, now, adm, ok200>>

\* line 114: call_ai(prompt) returns, or raises and the request ends in a 500
AiCallAi(r) ==
    /\ req[r].pc = "call"
    /\ \E out \in UpstreamOutcomes :
         IF UpstreamRaises(out)
         THEN /\ req' = [req EXCEPT ![r] = DoneReq]
              /\ last' = Response([req[r] EXCEPT !.calls = @ + 1], 500, "Internal Server Error")
         ELSE /\ req' = [req EXCEPT ![r] =
                            [@ EXCEPT !.pc = "inc", !.calls = @ + 1,
                                      !.upok = (out = "ok")]]
              /\ last' = last
    /\ UNCHANGED <<store, nextId, now, adm, ok200>>

\* lines 115-121: meter the call, answer 200
AiIncUsage(r) ==
    /\ req[r].pc = "inc"
    /\ store' = IncUsage(store, req[r].key)
    /\ req' = [req EXCEPT ![r] = DoneReq]
    /\ last' = Response([req[r] EXCEPT !.writes = @ + 1], 200, "reply")
    /\ ok200' = [ok200 EXCEPT ![req[r].key] = @ + 1]
    /\ UNCHANGED <<nextId, now, adm>>

\* ------------------------------------------------------------ admin commands
\* handler a has acted on the store: a rework of another update that is between
\* its revoke and its insert has been interleaved with
Interleave(A, a) ==
    [b \in Admins |->
        IF b # a /\ A[b].pc \in {"create", "insert"} /\ A[b].cmd = "/rework"
        THEN [A[b] EXCEPT !.interleaved = TRUE] ELSE A[b]]

\* an update reaches its handler
Arrives(a, m, cmd) ==
    /\ adm[a].pc = "idle"
    /\ IF a = 1 THEN TRUE ELSE adm[a - 1].pc # "idle"
    /\ m.text[1] = cmd

\* the handler ends in its first step, without an effect: by a return (not the
\* admin, too few words) or by the exception named in raised
Returns(a, m, raised) ==
    /\ adm' = [adm EXCEPT ![a] = DoneAdm]
    /\ last' = Outcome([IdleAdm EXCEPT !.from = m.from, !.cmd = m.text[1]], raised)

\* lines 148-155 and 51: genkey_cmd up to the call of create_key, which
\* begins by reading the clock
GenkeyCmd(a) ==
    \E m \in Messages :
    /\ Arrives(a, m, "/genkey")
    /\ IF ~is_admin(m.from) \/ Len(m.text) < 3
       THEN Returns(a, m, "")
       ELSE /\ adm' = [adm EXCEPT ![a] =
                         [@ EXCEPT !.pc = "insert", !.from = m.from, !.cmd = m.text[1],
                                   !.name = m.text[2], !.days = IntOf(m.text[3]),
                                   !.t = now]]
            /\ last' = last
    /\ UNCHANGED <<store, nextId, now, req, ok200>>

\* lines 203-208: rework_cmd up to the call of create_key; revoked is the value
\* revoke_by_name returns, which rework_cmd drops.  Without a second word
\* line 207 raises IndexError.
ReworkCmd(a) ==
    \E m \in Messages :
    /\ Arrives(a, m, "/rework")
    /\ IF ~is_admin(m.from)
       THEN /\ Returns(a, m, "")
            /\ store' = store
       ELSE IF Len(m.text) < 2
       THEN /\ Returns(a, m, "IndexError")
            /\ store' = store
       ELSE /\ store' = RevokeByName(store, m.text[2])
            /\ adm' = Interleave(
                 [adm EXCEPT ![a] =
                    [@ EXCEPT !.pc = "create", !.from = m.from, !.cmd = m.text[1],
                              !.name = m.text[2], !.days = ReworkDays,
                              !.revoked = ModifiedCount(store, m.text[2]),
                              !.pre = {d.key : d \in {e \in store : e.name = m.text[2]}}]], a)
            /\ last' = last
    /\ UNCHANGED <<nextId, now, req, ok200>>

\* line 51 of create_key, when rework_cmd calls it after the revoke and when
\* create_key calls itself: the clock is read
CreateKey(a) ==
    /\ adm[a].pc = "create"
    /\ adm' = [adm EXCEPT ![a] = [@ EXCEPT !.pc = "insert", !.t = now]]
    /\ last' = last
    /\ UNCHANGED <<store, nextId, now, req, ok200>>

\* lines 52-64 of create_key: the document is built around a fresh token and
\* goes to insert_one.  On DuplicateKeyError create_key calls itself and starts
\* over at line 51, one frame deeper; it has no limit of its own, and the
\* interpreter ends the recursion with RecursionError once MaxAttempts inserts
\* have collided: the handler ends there, with no insert and no message.  On
\* success the document goes back to the handler, whose next statement sends
\* the key.
InsertKey(a) ==
    /\ adm[a].pc = "insert"
    /\ \E token \in Tokens :
       LET doc == NewDoc(nextId, token, adm[a].name, adm[a].days, adm[a].t) IN
         IF DuplicateKey(store, doc)
         THEN /\ IF adm[a].attempts + 1 >= MaxAttempts
                 THEN /\ adm' = [adm EXCEPT ![a] = DoneAdm]
                      /\ last' = Outcome([adm[a] EXCEPT !.attempts = @ + 1], "RecursionError")
                 ELSE /\ adm' = [adm EXCEPT ![a] =
                                   [@ EXCEPT !.pc = "create", !.attempts = @ + 1,
                                             !.t = 0]]
                      /\ last' = last
              /\ UNCHANGED <<store, nextId, ok200>>
         ELSE /\ store' = InsertOne(store, doc)
              /\ nextId' = nextId + 1
              /\ adm' = Interleave(
                   [adm EXCEPT ![a] =
                      [IdleAdm EXCEPT !.pc = "send", !.from = adm[a].from,
                                      !.cmd = adm[a].cmd, !.name = adm[a].name,
                                      !.newkey = doc.key,
                                      !.sent = IF adm[a].cmd = "/genkey"
                                               THEN "API Key Generated"
                                               ELSE "Key Reworked"]], a)
              /\ last' = last
              /\ ok200' = [ok200 EXCEPT ![doc.key] = 0]
    /\ UNCHANGED <<now, req>>

\* lines 217-222: delkey_cmd up to its message.  Without a second word line 221
\* raises IndexError.
DelkeyCmd(a) ==
    \E m \in Messages :
    /\ Arrives(a, m, "/delkey")
    /\ IF ~is_admin(m.from)
       THEN /\ Returns(a, m, "")
            /\ store' = store
       ELSE IF Len(m.text) < 2
       THEN /\ Returns(a, m, "IndexError")
            /\ store' = store
       ELSE /\ store' = DeleteByKeyOrName(store, m.text[2])
            /\ adm' = Interleave(
                 [adm EXCEPT ![a] =
                    [@ EXCEPT !.pc = "send", !.from = m.from, !.cmd = m.text[1],
                              !.name = m.text[2], !.sent = "Deleted"]], a)
            /\ last' = last
    /\ UNCHANGED <<nextId, now, req, ok200>>

\* lines 165-170: list_cmd up to its message
ListCmd(a) ==
    \E m \in Messages :
    /\ Arrives(a, m, "/list")
    /\ IF ~is_admin(m.from)
       THEN Returns(a, m, "")
       ELSE /\ adm' = [adm EXCEPT ![a] =
                         [@ EXCEPT !.pc = "send", !.from = m.from, !.cmd = m.text[1],
                                   !.sent = IF FindAll(store) = {} THEN "No keys found"
                                                                   ELSE "list"]]
            /\ last' = last
    /\ UNCHANGED <<store, nextId, now, req, ok200>>

\* lines 184-191: usage_cmd up to its first find_one, by key
UsageCmd(a) ==
    \E m \in Messages :
    /\ Arrives(a, m, "/usage")
    /\ IF ~is_admin(m.from) \/ Len(m.text) < 2
       THEN Returns(a, m, "")
       ELSE /\ adm' = [adm EXCEPT ![a] =
                         [@ EXCEPT !.pc = IF FindOneByKey(store, m.text[2]) = {}
                                          THEN "byname" ELSE "send",
                                   !.from = m.from, !.cmd = m.text[1],
                                   !.name = m.text[2],
                                   !.sent = IF FindOneByKey(store, m.text[2]) = {}
                                            THEN "" ELSE "Usage"]]
            /\ last' = last
    /\ UNCHANGED <<store, nextId, now, req, ok200>>

\* line 191, the right operand of the or: the second find_one, by name, made
\* when the first found nothing
UsageByName(a) ==
    /\ adm[a].pc = "byname"
    /\ adm' = [adm EXCEPT ![a] =
                 [@ EXCEPT !.pc = "send",
                           !.sent = IF FindOneByName(store, adm[a].name) = {}
                                    THEN "Key not found" ELSE "Usage"]]
    /\ last' = last
    /\ UNCHANGED <<store, nextId, now, req, ok200>>

\* lines 225-230: test_cmd up to its message; call_ai("OK") returns or raises
TestCmd(a) ==
    \E m \in Messages, out \in UpstreamOutcomes :
    /\ Arrives(a, m, "/test")
    /\ IF ~is_admin(m.from)
       THEN Returns(a, m, "")
       ELSE IF UpstreamRaises(out)
       THEN /\ adm' = [adm EXCEPT ![a] = DoneAdm]
            /\ last' = Outcome([IdleAdm EXCEPT !.from = m.from, !.cmd = m.text[1],
                                               !.calls = 1], out)
       ELSE /\ adm' = [adm EXCEPT ![a] =
                         [@ EXCEPT !.pc = "send", !.from = m.from, !.cmd = m.text[1],
                                   !.calls = 1, !.sent = "OK"]]
            /\ last' = last
    /\ UNCHANGED <<store, nextId, now, req, ok200>>

\* bot.send_message, the last statement of every handler that answers (lines
\* 156, 169, 182, 193, 195, 210, 223, 231), and the return of the handler
SendMessage(a) ==
    /\ adm[a].pc = "send"
    /\ adm' = [adm EXCEPT ![a] = DoneAdm]
    /\ last' = Outcome(adm[a], "")
    /\ UNCHANGED <<store, nextId, now, req, ok200>>

Next ==
    \/ Tick
    \/ \E r \in Reqs : AiLookup(r)
    \/ \E r \in Reqs : AiCheckExpiry(r)
    \/ \E r \in Reqs : AiDeactivate(r)
    \/ \E r \in Reqs : AiCallAi(r)
    \/ \E r \in Reqs : AiIncUsage(r)
    \/ \E a \in Admins : GenkeyCmd(a)
    \/ \E a \in Admins : ReworkCmd(a)
    \/ \E a \in Admins : CreateKey(a)
    \/ \E a \in Admins : InsertKey(a)
    \/ \E a \in Admins : DelkeyCmd(a)
    \/ \E a \in Admins : ListCmd(a)
    \/ \E a \in Admins : UsageCmd(a)
    \/ \E a \in Admins : UsageByName(a)
    \/ \E a \in Admins : TestCmd(a)
    \/ \E a \in Admins : SendMessage(a)

Spec == Init /\ [][Next]_vars

\* =================================================================== claims
\* the same document (by _id) before and after a step
SameDoc(d, e) == d._id = e._id

\* request r returns in this step; its response is last'
Finishes(r) == req[r].pc # "done" /\ req'[r].pc = "done"

\* request r runs lines 100-108 in this step
LookupStep(r) == req[r].pc = "idle" /\ req'[r].pc # "idle"

\* the key request r presented, read after its lookup step
PresentedKey(r) == IF req'[r].pc = "done" THEN last'.key ELSE req'[r].key

\* the prompt request r presented, read after its lookup step
PresentedPrompt(r) == IF req'[r].pc = "done" THEN last'.prompt ELSE req'[r].prompt

\* a query parameter that is absent or empty
Absent(x) == x \in {NoneVal, ""}

\* key k has an active record in the given store that is not past its expiry at t
Admits(coll, k, t) == \E d \in coll : d.key = k /\ d.active /\ t <= d.expires_at

\* the step in which rework_cmd's revoke_by_name runs
RevokeStep(a) == adm[a].pc = "idle" /\ adm'[a].pc = "create" /\ adm'[a].cmd = "/rework"

\* the step in which the insert_one of rework_cmd's create_key succeeds
ReworkDone(a) == adm[a].pc = "insert" /\ adm[a].cmd = "/rework" /\ adm'[a].pc = "send"

\* ------------------------------------------------------------------- C1
\* C1: a record's usage rises only in the step in which a request whose single
\* upstream call has returned successfully answers 200; a request that ends in
\* 400, 401 or 500 leaves every usage counter as it was.
C1_UsageOnlyAfterUpstreamSuccess ==
    [][ /\ \A d \in store, e \in store' :
             SameDoc(d, e) /\ e.usage # d.usage =>
                \E r \in Reqs : /\ req[r].pc = "inc" /\ req'[r].pc = "done"
                                /\ req[r].upok /\ req[r].calls = 1
                                /\ req[r].key = d.key
                                /\ last'.kind = "http" /\ last'.status = 200
        /\ \A r \in Reqs :
             Finishes(r) /\ last'.status \in {400, 401, 500} =>
                \A d \in store, e \in store' : SameDoc(d, e) => e.usage = d.usage
      ]_vars

\* a 200 has been answered after one upstream call and the record is metered
C1_Witness ==
    /\ last.kind = "http" /\ last.status = 200 /\ last.calls = 1
    /\ \E d \in store : d.key = last.key /\ d.usage = 1

\* ------------------------------------------------------------------- C2
\* C2: whatever the interleaving, the usage of every record equals the number of
\* 200 responses given for its key since the record was inserted.
C2_NoLostUpdates == \A d \in store : d.usage = ok200[d.key]

\* two requests with the same key have both been answered 200
C2_Witness == \E d \in store : d.usage = 2 /\ ok200[d.key] = 2

\* ------------------------------------------------------------------- C3
\* C3 (as claimed): the lookup lets a request on iff an active record with the key
\* exists, and the expiry test admits it iff now < expires_at.
C3_AdmitsIffStrictlyBeforeExpiry ==
    [][ \A r \in Reqs :
          /\ LookupStep(r) /\ ~Absent(PresentedKey(r)) /\ ~Absent(PresentedPrompt(r)) =>
                (req'[r].pc = "check"
                    <=> \E d \in store : d.key = PresentedKey(r) /\ d.active)
          /\ req[r].pc = "check" /\ req'[r].pc # "check" =>
                (req'[r].pc = "call" <=> \A d \in req[r].doc : now < d.expires_at)
      ]_vars

\* C3 (amended): the lookup lets a request on iff an active record with the key
\* exists, and the expiry test admits it iff now <= expires_at: a key checked at
\* the instant now = expires_at is admitted.
C3_AdmitsIffNotPastExpiry ==
    [][ \A r \in Reqs :
          /\ LookupStep(r) /\ ~Absent(PresentedKey(r)) /\ ~Absent(PresentedPrompt(r)) =>
                (req'[r].pc = "check"
                    <=> \E d \in store : d.key = PresentedKey(r) /\ d.active)
          /\ req[r].pc = "check" /\ req'[r].pc # "check" =>
                (req'[r].pc = "call" <=> \A d \in req[r].doc : now <= d.expires_at)
      ]_vars

\* a request has been admitted at the instant its key expires
C3_Witness ==
    \E r \in Reqs : /\ req[r].pc = "call"
                    /\ \E d \in store : d.key = req[r].key /\ d.active /\ d.expires_at = now

\* ------------------------------------------------------------------- C4
\* C4: a request that finds its record active and past expires_at goes to the
\* expired branch; that branch answers 401 "API key expired" and leaves the
\* record of the key inactive; a request that presents the key of an inactive
\* record is answered 401 "Invalid API key".
C4_ExpiredKeyIsDeactivated ==
    [][ \A r \in Reqs :
          /\ req[r].pc = "check" /\ req'[r].pc # "check"
                /\ (\E d \in req[r].doc : d.expires_at < now)
                => req'[r].pc = "deactivate"
          /\ req[r].pc = "deactivate" /\ req'[r].pc = "done" =>
                /\ last'.kind = "http" /\ last'.status = 401
                /\ last'.body = "API key expired"
                /\ \A e \in store' : e.key = req[r].key => ~e.active
          /\ LookupStep(r) /\ ~Absent(PresentedKey(r)) /\ ~Absent(PresentedPrompt(r))
                /\ (\E d \in store : d.key = PresentedKey(r) /\ ~d.active)
                => /\ req'[r].pc = "done"
                   /\ last'.status = 401 /\ last'.body = "Invalid API key"
      ]_vars

\* the expired 401 has been answered and the record is inactive in the store
C4_Witness ==
    /\ last.kind = "http" /\ last.status = 401 /\ last.body = "API key expired"
    /\ \E d \in store : d.key = last.key /\ ~d.active /\ d.expires_at < now

\* ------------------------------------------------------------------- C5
\* C5: the revoke of rework leaves every record of the name inactive and none of
\* their keys is found by the lookup of /ai; a lookup that comes while the record
\* of the presented key is inactive never passes.
C5_RevokedKeysAreRejected ==
    [][ /\ \A a \in Admins :
             RevokeStep(a) =>
                \A e \in store' : e.name = adm'[a].name =>
                    ~e.active /\ \A t \in 0..MaxTime : ~Admits(store', e.key, t)
        /\ \A r \in Reqs :
             LookupStep(r) /\ (\E d \in store : d.key = PresentedKey(r) /\ ~d.active)
                => /\ req'[r].pc = "done"
                   /\ last'.kind = "http"
                   /\ last'.status \in {400, 401}
                   /\ last'.status = 401 => last'.body = "Invalid API key"
      ]_vars

\* a key of the revoked name has been presented after the revoke and refused
C5_Witness ==
    \E a \in Admins :
        /\ adm[a].pc = "create" /\ adm[a].cmd = "/rework"
        /\ last.kind = "http" /\ last.status = 401 /\ last.body = "Invalid API key"
        /\ last.key \in adm[a].pre
        /\ \A d \in store : d.name = adm[a].name => ~d.active

\* ------------------------------------------------------------------- C6
\* C6: when the create_key of a rework that no other admin handler interleaved
\* with has inserted, none of the keys the name had before is admitted by /ai,
\* the key it returns (and the handler then sends) is a new one, is admitted,
\* belongs to the name and has usage 0.
C6_ReworkRotatesKey ==
    [][ \A a \in Admins :
          /\ ReworkDone(a) /\ ~adm[a].interleaved =>
                /\ adm'[a].cmd = "/rework" /\ adm'[a].sent = "Key Reworked"
                /\ adm'[a].newkey \notin adm[a].pre
                /\ \A k \in adm[a].pre : \A t \in 0..MaxTime : ~Admits(store', k, t)
                /\ Admits(store', adm'[a].newkey, now')
                /\ \A e \in store' : e.key = adm'[a].newkey =>
                        e.usage = 0 /\ e.name = adm[a].name
          /\ adm[a].pc = "send" /\ adm'[a].pc = "done" =>
                /\ last'.kind = "bot" /\ last'.newkey = adm[a].newkey
                /\ last'.sent = adm[a].sent
      ]_vars

\* a rework has sent a new key for a name whose old key had been used and was
\* taken out of use by the revoke, not by its expiry
C6_Witness ==
    /\ last.kind = "bot" /\ last.cmd = "/rework" /\ last.sent = "Key Reworked"
    /\ Admits(store, last.newkey, now)
    /\ \E d \in store :
          /\ d.name = last.name /\ d.key # last.newkey
          /\ d.usage >= 1 /\ ~d.active /\ now <= d.expires_at

\* ------------------------------------------------------------------- C7
\* C7: no two records of the collection have the same key.
C7_KeysAreUnique == \A d \in store, e \in store : d.key = e.key => d = e

\* two records made at the same instant are in the collection
C7_Witness == \E d \in store, e \in store : d._id # e._id /\ d.created_at = e.created_at

\* ------------------------------------------------------------------- C8
\* C8: a record that is inactive is inactive after every step that keeps it.
C8_InactiveStaysInactive ==
    [][ \A d \in store, e \in store' : SameDoc(d, e) /\ ~d.active => ~e.active ]_vars

\* an inactive record has outlived a later genkey for its name
C8_Witness ==
    /\ last.kind = "bot" /\ last.cmd = "/genkey" /\ last.newkey # ""
    /\ \E d \in store : d.name = last.name /\ d.key # last.newkey /\ ~d.active

\* ------------------------------------------------------------------- C9
\* C9: usage is a natural number, and every step leaves the usage of a record it
\* keeps unchanged or raises it by exactly 1.
C9_UsageOnlyGrowsByOne ==
    /\ [](\A d \in store : d.usage \in Nat)
    /\ [][ \A d \in store, e \in store' :
             SameDoc(d, e) => e.usage = d.usage \/ e.usage = d.usage + 1 ]_vars

\* a used record has been revoked and has kept its count
C9_Witness ==
    \E a \in Admins :
        /\ adm[a].pc = "create" /\ adm[a].cmd = "/rework"
        /\ \E d \in store : d.name = adm[a].name /\ d.usage >= 1 /\ ~d.active

\* ------------------------------------------------------------------ C10
\* C10: a request is answered 400 iff apikey or prompt is absent or empty; the
\* 400 says "Missing parameters" and the request has made no find, no write and
\* no upstream call.
C10_MissingParameters ==
    last.kind = "http" =>
        /\ last.status = 400 <=> Absent(last.key) \/ Absent(last.prompt)
        /\ last.status = 400 =>
              /\ last.body = "Missing parameters"
              /\ last.finds = 0 /\ last.writes = 0 /\ last.calls = 0

\* the apikey alone was missing, with records in the store
C10_Witness ==
    /\ last.kind = "http" /\ last.status = 400
    /\ Absent(last.key) /\ ~Absent(last.prompt)
    /\ store # {}

\* ------------------------------------------------------------------ C11
\* C11: when the upstream call fails (timeout, non-success status, or a body
\* without the expected fields) the request ends in a 500 after exactly one
\* upstream call and without a write of its own to the collection; only a
\* request whose single call succeeded goes on to the increment.
C11_UpstreamFailureIs500 ==
    /\ \A r \in Reqs : req[r].pc = "inc" => req[r].upok /\ req[r].calls = 1
    /\ last.kind = "http" /\ last.status = 500 =>
          /\ last.calls = 1
          /\ last.writes = 0
          /\ last.finds = 1
          /\ last.body = "Internal Server Error"
    /\ last.kind = "http" /\ last.calls = 1 => last.status \in {200, 500}
    /\ last.kind = "http" => last.calls <= 1

\* a 500 has been answered after one upstream call and the key's record is
\* still active and unmetered
C11_Witness ==
    /\ last.kind = "http" /\ last.status = 500 /\ last.calls = 1
    /\ \E d \in store : d.key = last.key /\ d.active /\ d.usage = 0

\* ------------------------------------------------------------------ C12
\* the handler that ended last was ended by its create_key, which gave up
\* after colliding inserts
GaveUp ==
    /\ last.kind = "bot" /\ last.cmd \in {"/genkey", "/rework"}
    /\ last.attempts >= 1 /\ last.newkey = ""

\* C12: a create_key call whose generated tokens all collide ends, after a
\* bounded number of insert attempts, in the terminal failure
\* TokenGenerationExhausted.
C12_EndsInTokenGenerationExhausted ==
    GaveUp => last.raised = "TokenGenerationExhausted"

\* ------------------------------------------------------------------ C13
\* the step in which delkey_cmd's delete_many runs
DeleteStep(a) ==
    /\ adm[a].pc = "idle" /\ adm'[a].pc = "send"
    /\ adm'[a].cmd = "/delkey" /\ adm'[a].sent = "Deleted"

\* the token of the /delkey that runs in this step
Target(a) == adm'[a].name

\* C13: when /delkey T has run, no record with key T or name T is left, every
\* record that matches neither is still there untouched and nothing was added;
\* an /ai request whose key has no record is answered 401 "Invalid API key".
C13_DeleteRemovesExactlyMatches ==
    [][ /\ \A a \in Admins :
             DeleteStep(a) =>
                /\ \A e \in store' : e.key # Target(a) /\ e.name # Target(a)
                /\ \A d \in store :
                      d.key # Target(a) /\ d.name # Target(a) => d \in store'
                /\ store' \subseteq store
        /\ \A r \in Reqs :
             /\ LookupStep(r)
             /\ ~Absent(PresentedKey(r)) /\ ~Absent(PresentedPrompt(r))
             /\ \A d \in store : d.key # PresentedKey(r)
             => /\ Finishes(r)
                /\ last'.kind = "http" /\ last'.status = 401
                /\ last'.body = "Invalid API key"
                /\ store' = store
      ]_vars

\* a key that had been served has no record any more and a request presenting
\* it has been answered 401 "Invalid API key"
C13_Witness ==
    /\ last.kind = "http" /\ last.status = 401 /\ last.body = "Invalid API key"
    /\ last.key \in Tokens
    /\ ok200[last.key] >= 1
    /\ \A d \in store : d.key # last.key
    /\ \E a \in Admins : adm[a].pc = "done"

\* ------------------------------------------------------------------ C14
\* the step in which create_key's insert_one succeeds
CreateStep(a) == adm[a].pc = "insert" /\ adm'[a].pc = "send"

\* C14: the step in which the insert of create_key(name, days) succeeds adds
\* exactly one record: it carries the name, created_at is the clock as
\* create_key read it (not later than the clock of the insert), expires_at is
\* created_at + days also for days <= 0, it is active with usage 0, and its
\* key is the generated token, which is returned and then sent to the admin.
C14_CreatedRecordShape ==
    [][ \A a \in Admins :
          CreateStep(a) =>
             \E e \in store' :
                /\ store' = store \cup {e}
                /\ \A d \in store : ~SameDoc(d, e) /\ d.key # e.key
                /\ e.name = adm[a].name
                /\ e.created_at = adm[a].t /\ e.created_at <= now
                /\ e.expires_at = e.created_at + adm[a].days
                /\ e.active
                /\ e.usage = 0
                /\ adm'[a].newkey = e.key
                /\ adm'[a].name = e.name
      ]_vars

\* /genkey with a negative lifetime has just returned the key of a record that
\* expires before it was created, active and unmetered
C14_Witness ==
    /\ last.kind = "bot" /\ last.cmd = "/genkey" /\ last.sent = "API Key Generated"
    /\ \E d \in store :
          /\ d.key = last.newkey /\ d.name = last.name
          /\ d.expires_at < d.created_at
          /\ d.active /\ d.usage = 0

\* ------------------------------------------------------------------ C15
\* C15: a command (/genkey, /list, /usage, /rework, /delkey, /test) whose
\* sender is not ADMIN_ID returns in its first step with the collection as it
\* was, no upstream call, no message and no key; only a handler of the
\* admin's update gets past its first step, and only such a handler sends.
C15_NonAdminHasNoEffect ==
    [][ \A a \in Admins :
          /\ adm[a].pc = "idle" /\ adm'[a].pc = "done"
             /\ last'.kind = "bot" /\ last'.from # ADMIN_ID
             => /\ store' = store
                /\ nextId' = nextId
                /\ last'.calls = 0
                /\ last'.sent = ""
                /\ last'.newkey = ""
                /\ last'.raised = ""
          /\ adm'[a].pc \notin {"idle", "done"} => adm'[a].from = ADMIN_ID
          /\ adm[a].pc = "send" /\ adm'[a].pc = "done" =>
                last'.kind = "bot" /\ last'.from = ADMIN_ID
      ]_vars

\* a sender other than the admin has sent /delkey while the collection held a
\* record, and the record is still there
C15_Witness ==
    /\ last.kind = "bot" /\ last.from # ADMIN_ID /\ last.cmd = "/delkey"
    /\ last.sent = ""
    /\ store # {}

\* ------------------------------------------------------------------ C16
\* the step in which request r runs the increment of line 115 and answers
MeterStep(r) == req[r].pc = "inc" /\ req'[r].pc = "done"

\* C16: a request gets past the lookup only if the record of its key is active
\* at that moment, and a lookup made once the record is inactive ends in 401;
\* a request admitted earlier still answers 200 and adds one to the usage of
\* the record, inactive or not, and leaves the active flag of every record as
\* it finds it.
C16_OnlyEarlierLookupsPassRevoke ==
    [][ \A r \in Reqs :
          /\ LookupStep(r) /\ ~Finishes(r) =>
                \E d \in store : d.key = PresentedKey(r) /\ d.active
          /\ LookupStep(r) /\ ~Absent(PresentedKey(r)) /\ ~Absent(PresentedPrompt(r))
             /\ (\A d \in store : d.key = PresentedKey(r) => ~d.active)
             => Finishes(r) /\ last'.kind = "http" /\ last'.status = 401
          /\ MeterStep(r) =>
                /\ last'.kind = "http" /\ last'.status = 200
                /\ \A d \in store :
                      \E e \in store' :
                         /\ SameDoc(d, e)
                         /\ e.active = d.active
                         /\ e.usage = IF d.key = req[r].key THEN d.usage + 1 ELSE d.usage
      ]_vars

\* after the rework of the name has sent its new key and every handler has
\* returned, a request admitted before the revoke has answered 200 for the old
\* key: the old record is inactive though not expired, and metered
C16_Witness ==
    /\ last.kind = "http" /\ last.status = 200
    /\ \A a \in Admins : adm[a].pc = "done"
    /\ \E d, e \in store :
          /\ d.key = last.key /\ ~d.active /\ d.usage >= 1
          /\ now <= d.expires_at
          /\ e.name = d.name /\ e._id > d._id
          /\ e.expires_at = e.created_at + ReworkDays

\* ------------------------------------------------------------------ C17
\* the records of coll with the fields a handler may write left out
Identity(coll) ==
    {[_id |-> d._id, key |-> d.key, name |-> d.name,
      created_at |-> d.created_at, expires_at |-> d.expires_at] : d \in coll}

\* C17: no step changes key, name, created_at or expires_at of a record that
\* stays in the collection; the steps of /ai and the revoke of /rework keep
\* the same records and write at most active and usage; /rework ends by adding
\* a record of its own for the name and edits none.
C17_IdentityFieldsAreImmutable ==
    [][ /\ \A d \in store, e \in store' :
             SameDoc(d, e) =>
                /\ e.key = d.key /\ e.name = d.name
                /\ e.created_at = d.created_at /\ e.expires_at = d.expires_at
        /\ \A r \in Reqs : req'[r] # req[r] => Identity(store') = Identity(store)
        /\ \A a \in Admins :
             /\ RevokeStep(a) => Identity(store') = Identity(store)
             /\ ReworkDone(a) =>
                   /\ store \subseteq store'
                   /\ \E e \in store' \ store :
                         /\ e.name = adm[a].name
                         /\ \A d \in store : ~SameDoc(d, e)
      ]_vars

\* a rework has returned: the older record of the name, inactive, keeps its
\* name and its own expiry next to the new record of the name
C17_Witness ==
    /\ last.kind = "bot" /\ last.cmd = "/rework"
    /\ \E d, e \in store :
          /\ e.key = last.newkey
          /\ d.name = last.name /\ e.name = last.name
          /\ d._id < e._id
          /\ ~d.active
          /\ d.expires_at <= d.created_at
          /\ e.expires_at = e.created_at + ReworkDays

\* ------------------------------------------------------------------ C18
\* C18 as stated: revoke_by_name(N) returns the number of records whose name
\* is N, the already inactive ones included.
C18_ReturnsNumberOfRecordsOfName ==
    \A a \in Admins :
       adm[a].pc = "create" /\ adm[a].cmd = "/rework" =>
          adm[a].revoked = Cardinality(adm[a].pre)

\* C18 (amended): revoke_by_name(N) returns the number of records whose active
\* flag it changed, which are the records of name N that were active before
\* the call; it leaves every record of name N inactive, and the records of the
\* name that were inactive already are not counted.
C18_ReturnsNumberOfRecordsChanged ==
    [][ \A a \in Admins :
          RevokeStep(a) =>
             /\ adm'[a].revoked =
                   Cardinality({d \in store : \E e \in store' : SameDoc(d, e) /\ e # d})
             /\ adm'[a].revoked + Cardinality({d \in store : d.name = adm'[a].name /\ ~d.active})
                   = Cardinality({e \in store' : e.name = adm'[a].name /\ ~e.active})
             /\ \A e \in store' : e.name = adm'[a].name => ~e.active
      ]_vars

\* a revoke has run on a name whose only record had been deactivated before:
\* one record of the name, none counted
C18_Witness ==
    \E a \in Admins :
       /\ adm[a].pc = "create" /\ adm[a].cmd = "/rework"
       /\ adm[a].pre # {}
       /\ adm[a].revoked = 0
       /\ \A d \in store : d.name = adm[a].name => ~d.active

\* ------------------------------------------------------------------ C19
\* every record of name n was made by rework_cmd (its lifetime is ReworkDays;
\* /genkey sends other lifetimes)
OnlyReworked(n) ==
    \A d \in store : d.name = n => d.expires_at = d.created_at + ReworkDays

\* C19: once every /rework has completed, a name whose records were all made
\* by /rework has at most one active record.
C19_AtMostOneActiveAfterReworks ==
    (\A a \in Admins : adm[a].pc \in {"idle", "done"}) =>
       \A n \in Names :
          OnlyReworked(n) =>
             Cardinality({d \in store : d.name = n /\ d.active}) <= 1

\* ------------------------------------------------------------------ C20
\* C20: the increment of a request whose key has no record any more (it was
\* deleted after the lookup) changes nothing in the collection, and the
\* request still answers 200; in every step, a record that is in the
\* collection afterwards was there before or is the one a create_key inserts
\* in that step.
C20_IncrementNeverCreates ==
    [][ /\ \A r \in Reqs :
             MeterStep(r) /\ (\A d \in store : d.key # req[r].key) =>
                /\ store' = store
                /\ last'.kind = "http" /\ last'.status = 200
        /\ \A e \in store' :
             \/ \E d \in store : SameDoc(d, e)
             \/ \E a \in Admins : CreateStep(a) /\ e.key = adm'[a].newkey /\ e._id = nextId
      ]_vars

\* after every handler has returned, a request has answered 200 after its one
\* write, and the collection, from which a /delkey had taken the record in
\* the meantime, has no record of the key
C20_Witness ==
    /\ last.kind = "http" /\ last.status = 200 /\ last.writes = 1
    /\ \A d \in store : d.key # last.key
    /\ \A a \in Admins : adm[a].pc = "done"
    /\ nextId > 1

====
